---- MODULE Spec2Model ----
(***************************************************************************)
(* Model of the authentication/session subsystem of the user-account       *)
(* backend: POST /login (credential issuer), the activeTokens registry,    *)
(* the verifyToken middleware (verification gate) and POST /logout.        *)
(*                                                                         *)
(* JavaScript values are modelled as follows.  A string is a TLA+ string;  *)
(* the values undefined and null are the sentinels Undefined and Null.     *)
(* An optional value (Map.get, req.user, a response's token) is a sequence *)
(* of length 0 or 1.  A Map is a function whose domain is its key set.     *)
(* An Authorization header is a sequence of atoms (see Atom below).        *)
(***************************************************************************)
EXTENDS Integers, Sequences, FiniteSets, Bags, TLC

\* ------------------------------------------------------------------------
\* Bounds of the model
\* ------------------------------------------------------------------------
MaxTicks == 2
MaxLogins == 2
MaxInflight == 2

\* ------------------------------------------------------------------------
\* Program constants
\* ------------------------------------------------------------------------
\* jwt.sign(..., { expiresIn: "1h" }): seconds added to iat
TTL == 3600

\* the clock advances by one second or by one second less than the TTL
TickSteps == {1, TTL - 1}

Undefined == "<undefined>"
Null == "<null>"

None == <<>>
Some(x) == <<x>>

\* ------------------------------------------------------------------------
\* The persistence collaborator: tbl_users and bcrypt
\* ------------------------------------------------------------------------
Ids == {1, 2}

\* bcrypt.hash(password, rounds): a salted one-way digest
BcryptHash(salt, password) == [salt |-> salt, digest |-> <<salt, password>>]

\* bcrypt.compare(plaintext, storedHash): re-hash with the stored salt
BcryptCompare(password, hash) == BcryptHash(hash.salt, password) = hash

\* the rows of tbl_users when the process starts
tbl_users ==
  { [id |-> 1, username |-> "alice", firstname |-> "Al", fullname |-> "Alice",
     lastname |-> "A", password |-> BcryptHash("s1", "pwA"),
     address |-> "1 Road", status |-> "active", updated_at |-> 0],
    [id |-> 2, username |-> "bob", firstname |-> "Bo", fullname |-> "Bob",
     lastname |-> "B", password |-> BcryptHash("s2", "pwB"),
     address |-> "2 Road", status |-> "active", updated_at |-> 0] }

LoginUsernames == {"alice", "bob", "nobody", Undefined}
LoginPasswords == {"pwA", "pwB", ""}

\* ------------------------------------------------------------------------
\* jsonwebtoken
\* ------------------------------------------------------------------------
NoPayload == [id |-> 0, fullname |-> "", lastname |-> "", iat |-> 0, exp |-> 0]

\* the signature part of a token: a MAC over algorithm and payload under a key
NoSig == [key |-> "", alg |-> "none", payload |-> NoPayload]
Mac(key, alg, payload) == [key |-> key, alg |-> alg, payload |-> payload]

\* a token string header.payload.signature
Jwt(alg, payload, sig) == [alg |-> alg, payload |-> payload, sig |-> sig]

\* variant of JwtSign: the whole user row is signed, stored hash included
JwtSign_WholeRow(claims, key, t) ==
  IF key = "" THEN [ok |-> FALSE, token |-> Jwt("none", NoPayload, NoSig)]
  ELSE LET p == [id |-> claims.id, fullname |-> claims.fullname,
                 lastname |-> claims.lastname, password |-> claims.password,
                 iat |-> t, exp |-> t + TTL]
       IN [ok |-> TRUE, token |-> Jwt("HS256", p, Mac(key, "HS256", p))]

\* jwt.sign(payload, secret, { expiresIn: "1h" }) at clock t; ok = FALSE when it throws
JwtSign(claims, key, t) ==
  IF key = "" THEN [ok |-> FALSE, token |-> Jwt("none", NoPayload, NoSig)]
  ELSE LET p == [id |-> claims.id, fullname |-> claims.fullname,
                 lastname |-> claims.lastname, iat |-> t, exp |-> t + TTL]
       IN [ok |-> TRUE, token |-> Jwt("HS256", p, Mac(key, "HS256", p))]

\* the major versions of jsonwebtoken the import can resolve to
JwtMajors == {8, 9}

\* variant of JwtVerify: the exp claim is not checked (ignoreExpiration)
JwtVerify_IgnoreExpiration(tok, key, t, major) ==
  LET hasSignature == tok.sig # NoSig
      algorithms == IF key = "" THEN {"none"} ELSE {"HS256", "HS384", "HS512"}
      valid == IF tok.alg = "none" THEN ~hasSignature
               ELSE tok.sig = Mac(key, tok.alg, tok.payload)
      err == \/ (~hasSignature /\ key # "")
             \/ (hasSignature /\ key = "")
             \/ (~hasSignature /\ key = "" /\ major >= 9)
             \/ tok.alg \notin algorithms
             \/ ~valid
  IN [err |-> err, decoded |-> IF err THEN NoPayload ELSE tok.payload]

\* variant of JwtVerify: the payload is decoded without checking the signature
JwtVerify_DecodeOnly(tok, key, t, major) ==
  LET err == t >= tok.payload.exp
  IN [err |-> err, decoded |-> IF err THEN NoPayload ELSE tok.payload]

\* jwt.verify(token, secret, callback) at clock t: err or the decoded payload.
\* major is the installed major version of the library, on which the outcome
\* for an unsigned token depends when no secret is configured.
JwtVerify(tok, key, t, major) ==
  LET hasSignature == tok.sig # NoSig
      algorithms == IF key = "" THEN {"none"} ELSE {"HS256", "HS384", "HS512"}
      valid == IF tok.alg = "none" THEN ~hasSignature
               ELSE tok.sig = Mac(key, tok.alg, tok.payload)
      err == \/ (~hasSignature /\ key # "")
             \/ (hasSignature /\ key = "")
             \/ (~hasSignature /\ key = "" /\ major >= 9)
             \/ tok.alg \notin algorithms
             \/ ~valid
             \/ t >= tok.payload.exp
  IN [err |-> err, decoded |-> IF err THEN NoPayload ELSE tok.payload]

\* ------------------------------------------------------------------------
\* The Authorization header
\* ------------------------------------------------------------------------
\* An atom is a piece of header text: a space, a literal word, or the text
\* of one token.  A header is a sequence of atoms; adjacent atoms are
\* adjacent text.
NoJwt == Jwt("none", NoPayload, NoSig)
SP == [c |-> " ", jwt |-> NoJwt]
Word(w) == [c |-> w, jwt |-> NoJwt]
TokAtom(tok) == [c |-> "jwt", jwt |-> tok]

\* String.prototype.split(" "): the pieces between the spaces
RECURSIVE Split(_)
Split(h) ==
  IF h = <<>> THEN << <<>> >>
  ELSE LET rest == Split(Tail(h))
       IN IF Head(h) = SP THEN << <<>> >> \o rest
          ELSE << <<Head(h)>> \o Head(rest) >> \o Tail(rest)

\* authHeader && authHeader.split(" ")[1]; a falsy result is None
ExtractToken(authHeader) ==
  IF authHeader = None THEN None
  ELSE LET parts == Split(authHeader[1])
       IN IF Len(parts) < 2 \/ parts[2] = <<>> THEN None ELSE Some(parts[2])

\* ------------------------------------------------------------------------
\* The session registry (activeTokens Map)
\* ------------------------------------------------------------------------
\* variant of setActiveToken: the registry keeps one session in all
setActiveToken_SingleSession(reg, userId, token) ==
  [x \in {userId} |-> token]

setActiveToken(reg, userId, token) ==
  [x \in DOMAIN reg \cup {userId} |-> IF x = userId THEN token ELSE reg[x]]

getActiveToken(reg, userId) ==
  IF userId \in DOMAIN reg THEN Some(reg[userId]) ELSE None

\* variant of clearActiveToken: activeTokens.clear() instead of delete(userId)
clearActiveToken_ClearAll(reg, userId) ==
  [x \in {} |-> reg[x]]

clearActiveToken(reg, userId) ==
  [x \in DOMAIN reg \ {userId} |-> reg[x]]

\* ------------------------------------------------------------------------
\* The verification gate
\* ------------------------------------------------------------------------
\* variant of verifyToken: the secret is read from a variable that is not set
verifyToken_UnsetSecret(authHeader, key, t, major) ==
  LET token == ExtractToken(authHeader)
  IN IF token = None
     THEN [status |-> 401, error |-> "No token provided, authorization denied",
           user |-> None]
     ELSE LET text == token[1]
              r == IF Len(text) = 1 /\ text[1].c = "jwt"
                   THEN JwtVerify(text[1].jwt, "", t, major)
                   ELSE [err |-> TRUE, decoded |-> NoPayload]
          IN IF r.err
             THEN [status |-> 403, error |-> "Invalid or expired token",
                   user |-> None]
             ELSE [status |-> 0, error |-> "", user |-> Some(r.decoded)]

\* variant of verifyToken: a rejected token is answered with 401 as well
verifyToken_Rejected401(authHeader, key, t, major) ==
  LET token == ExtractToken(authHeader)
  IN IF token = None
     THEN [status |-> 401, error |-> "No token provided, authorization denied",
           user |-> None]
     ELSE LET text == token[1]
              r == IF Len(text) = 1 /\ text[1].c = "jwt"
                   THEN JwtVerify(text[1].jwt, key, t, major)
                   ELSE [err |-> TRUE, decoded |-> NoPayload]
          IN IF r.err
             THEN [status |-> 401, error |-> "No token provided, authorization denied",
                   user |-> None]
             ELSE [status |-> 0, error |-> "", user |-> Some(r.decoded)]

\* variant of verifyToken: req.user is set from the decoded token before the
\* outcome of the verification is looked at
verifyToken_AttachUnverified(authHeader, key, t, major) ==
  LET token == ExtractToken(authHeader)
  IN IF token = None
     THEN [status |-> 401, error |-> "No token provided, authorization denied",
           user |-> None]
     ELSE LET text == token[1]
              r == IF Len(text) = 1 /\ text[1].c = "jwt"
                   THEN JwtVerify(text[1].jwt, key, t, major)
                   ELSE [err |-> TRUE, decoded |-> NoPayload]
          IN IF r.err
             THEN [status |-> 403, error |-> "Invalid or expired token",
                   user |-> IF Len(text) = 1 /\ text[1].c = "jwt"
                            THEN Some(text[1].jwt.payload) ELSE None]
             ELSE [status |-> 0, error |-> "", user |-> Some(r.decoded)]

\* verifyToken(req, res, next): status 0 means next() was called with
\* req.user = decoded; otherwise the response that was sent
verifyToken(authHeader, key, t, major) ==
  LET token == ExtractToken(authHeader)
  IN IF token = None
     THEN [status |-> 401, error |-> "No token provided, authorization denied",
           user |-> None]
     ELSE LET text == token[1]
              r == IF Len(text) = 1 /\ text[1].c = "jwt"
                   THEN JwtVerify(text[1].jwt, key, t, major)
                   ELSE [err |-> TRUE, decoded |-> NoPayload]
          IN IF r.err
             THEN [status |-> 403, error |-> "Invalid or expired token",
                   user |-> None]
             ELSE [status |-> 0, error |-> "", user |-> Some(r.decoded)]

\* the calls verifyToken makes on res and on next, in order: each branch
\* ends the middleware, by "return res.status().json()" or at the end of the
\* callback that jwt.verify invokes once
ResCall(status, error) == [call |-> "res.json", status |-> status, error |-> error]
NextCall == [call |-> "next", status |-> 0, error |-> ""]

\* variant of verifyTokenCalls: the branch for a missing token does not return
verifyTokenCalls_FallThrough(authHeader, key, t, major) ==
  LET token == ExtractToken(authHeader)
  IN IF token = None
     THEN <<ResCall(401, "No token provided, authorization denied"),
            ResCall(403, "Invalid or expired token")>>
     ELSE LET text == token[1]
              r == IF Len(text) = 1 /\ text[1].c = "jwt"
                   THEN JwtVerify(text[1].jwt, key, t, major)
                   ELSE [err |-> TRUE, decoded |-> NoPayload]
          IN IF r.err THEN <<ResCall(403, "Invalid or expired token")>>
                      ELSE <<NextCall>>

verifyTokenCalls(authHeader, key, t, major) ==
  LET token == ExtractToken(authHeader)
  IN IF token = None
     THEN <<ResCall(401, "No token provided, authorization denied")>>
     ELSE LET text == token[1]
              r == IF Len(text) = 1 /\ text[1].c = "jwt"
                   THEN JwtVerify(text[1].jwt, key, t, major)
                   ELSE [err |-> TRUE, decoded |-> NoPayload]
          IN IF r.err THEN <<ResCall(403, "Invalid or expired token")>>
                      ELSE <<NextCall>>

\* variant of requireFields: only an absent key counts as missing
requireFields_OnlyUndefined(obj, keys) ==
  LET missing(k) == obj[k] = Undefined
      idx == { i \in 1..Len(keys) : missing(keys[i]) }
  IN IF idx = {} THEN None
     ELSE Some(keys[CHOOSE i \in idx : \A j \in idx : i <= j])

\* requireFields(obj, keys): the first missing key, or None
requireFields(obj, keys) ==
  LET missing(k) == obj[k] = Undefined \/ obj[k] = Null \/ obj[k] = ""
      idx == { i \in 1..Len(keys) : missing(keys[i]) }
  IN IF idx = {} THEN None
     ELSE Some(keys[CHOOSE i \in idx : \A j \in idx : i <= j])

\* ------------------------------------------------------------------------
\* State
\* ------------------------------------------------------------------------
VARIABLES
  env,          \* process.env.JWT_SECRET ("" when it is not set) and the
                \* installed major version of jsonwebtoken
  now,          \* Math.floor(Date.now() / 1000)
  ticks,        \* number of clock advances so far
  activeTokens, \* the registry Map: user id -> token
  inflight,     \* bag of the POST /login requests suspended at an await
  issued,       \* history: tokens returned by successful logins, in order
  boot,         \* history: how many tokens had been issued when this process started
  last,         \* the operation performed by the latest step and its response
  db            \* the rows of tbl_users

vars == <<env, now, ticks, activeTokens, inflight, issued, boot, last, db>>

\* SELECT id, fullname, lastname, password FROM tbl_users WHERE username = ? LIMIT 1
SelectByUsername(username) ==
  { [id |-> r.id, fullname |-> r.fullname, lastname |-> r.lastname,
     password |-> r.password] : r \in { x \in db : x.username = username } }

EmptyMap == [x \in {} |-> NoJwt]

\* The Map of the registry module.  The module creates its own Map when it
\* is loaded; the entry point does not import the module: it declares its own
\* Map (kept on globalThis) and its own set and clear functions, and the gate
\* imports jsonwebtoken only.  No handler calls the module's set or clear, so
\* the module's Map stays as created.
moduleActiveTokens == EmptyMap

Op(op, hdr, username, status, error, user, token, before) ==
  [op |-> op, hdr |-> hdr, username |-> username, status |-> status,
   error |-> error, user |-> user, token |-> token, before |-> before,
   body |-> None, route |-> None, gate |-> <<>>, started |-> 0,
   params |-> None, query |-> None, paging |-> None]

\* ------------------------------------------------------------------------
\* Requests the environment can send
\* ------------------------------------------------------------------------
UserClaims(id) == CHOOSE r \in tbl_users : r.id = id
OtherId(id) == CHOOSE x \in Ids : x # id

\* tokens made without the server's secret at clock t
AttackerTokens(t) ==
  UNION { LET r == UserClaims(id)
              p == [id |-> id, fullname |-> r.fullname, lastname |-> r.lastname,
                    iat |-> t, exp |-> t + TTL]
          IN { Jwt("HS256", p, Mac("attacker", "HS256", p)),
               Jwt("none", p, NoSig) } : id \in Ids }

\* an issued token altered in one position
Altered(tok) ==
  { [tok EXCEPT !.payload.id = OtherId(tok.payload.id)],
    [tok EXCEPT !.payload.exp = tok.payload.exp + TTL],
    [tok EXCEPT !.sig.key = "attacker"],
    [tok EXCEPT !.alg = "none"] }

\* the content of an issued token signed again under the key with another
\* algorithm of the HMAC family, as a holder of the key can do
Resigned(tok, key) ==
  { Jwt(alg, tok.payload, Mac(key, alg, tok.payload)) : alg \in {"HS384"} }

Range(f) == { f[i] : i \in DOMAIN f }

\* the tokens a client of the running server holds: those it was issued
PresentableTokens == Range(issued)

\* the Authorization headers built around a token
HeaderShapes(tok) ==
  { None,
    Some(<<Word("Bearer"), SP, TokAtom(tok)>>),
    Some(<<Word("Basic"), SP, TokAtom(tok)>>),
    Some(<<Word("Bearer")>>),
    Some(<<Word("Bearer"), SP>>),
    Some(<<TokAtom(tok)>>),
    Some(<<Word("Bearer"), TokAtom(tok)>>),
    Some(<<Word("Bearer"), SP, SP, TokAtom(tok)>>),
    Some(<<Word("Bearer"), SP, TokAtom(tok), SP, Word("x")>>),
    Some(<<Word("Bearer"), SP, Word("x")>>) }

BearerHeader(tok) == Some(<<Word("Bearer"), SP, TokAtom(tok)>>)

ClientHeaders == {None} \cup { BearerHeader(tok) : tok \in PresentableTokens }

\* The configurations a process can start in.  JwtVerify depends on the major
\* version only where key = "", so with a secret configured the two majors
\* give the same behaviours and the newest one stands for both.
Environments ==
  { e \in [JWT_SECRET : {"s3cret", ""}, jwtMajor : JwtMajors] :
      e.JWT_SECRET # "" => \A m \in JwtMajors : m <= e.jwtMajor }

\* ------------------------------------------------------------------------
\* Initial state: the process has started, nobody has logged in
\* ------------------------------------------------------------------------
Init ==
  /\ env \in Environments
  /\ now = 0
  /\ ticks = 0
  /\ activeTokens = EmptyMap
  /\ inflight = EmptyBag
  /\ issued = <<>>
  /\ boot = 0
  /\ db = tbl_users
  /\ last = Op("start", None, "", 0, "", None, None, EmptyMap)

\* ------------------------------------------------------------------------
\* Actions
\* ------------------------------------------------------------------------
Tick(d) ==
  /\ ticks < MaxTicks
  /\ now' = now + d
  /\ ticks' = ticks + 1
  /\ last' = Op("tick", None, "", 0, "", None, None, activeTokens)
  /\ UNCHANGED <<env, db, boot, activeTokens, inflight, issued>>

Requests == BagToSet(inflight)
Suspend(req) == inflight (+) SetToBag({req})
Resume(req) == inflight (-) SetToBag({req})

\* POST /login up to the first await (db.execute)
LoginStart(username, password) ==
  /\ LET missing == requireFields([username |-> username, password |-> password],
                                  <<"username", "password">>)
     IN IF missing # None
        THEN /\ last' = Op("login", None, username, 400,
                           "Missing required field: " \o missing[1],
                           None, None, activeTokens)
             /\ UNCHANGED inflight
        ELSE /\ BagCardinality(inflight) < MaxInflight
             /\ Len(issued) + BagCardinality(inflight) < MaxLogins
             /\ inflight' = Suspend([pc |-> "lookup", username |-> username,
                                     password |-> password, row |-> None,
                                     started |-> Len(issued)])
             /\ last' = Op("suspend", None, "", 0, "", None, None, activeTokens)
  /\ UNCHANGED <<env, db, boot, now, ticks, activeTokens, issued>>

\* POST /login from the resolution of db.execute to the next await
LoginLookupDone(req, dbok) ==
  /\ req \in Requests
  /\ req.pc = "lookup"
  /\ LET rows == SelectByUsername(req.username)
     IN IF ~dbok
        THEN /\ inflight' = Resume(req)
             /\ last' = Op("login", None, req.username, 500, "Login failed",
                           None, None, activeTokens)
        ELSE IF rows = {}
        THEN /\ inflight' = Resume(req)
             /\ last' = Op("login", None, req.username, 401, "User not found",
                           None, None, activeTokens)
        ELSE /\ inflight' = Resume(req) (+) SetToBag({
                   [req EXCEPT !.pc = "compare",
                               !.row = Some(CHOOSE r \in rows : TRUE)]})
             /\ last' = Op("suspend", None, "", 0, "", None, None, activeTokens)
  /\ UNCHANGED <<env, db, boot, now, ticks, activeTokens, issued>>

\* variant of LoginCompareDone: the result of bcrypt.compare is not looked at
LoginCompareDone_IgnoresCompare(req) ==
  /\ req \in Requests
  /\ req.pc = "compare"
  /\ LET user == req.row[1]
         isMatch == TRUE
         signed == JwtSign(user, env.JWT_SECRET, now)
     IN /\ inflight' = Resume(req)
        /\ IF ~isMatch
           THEN /\ last' = Op("login", None, req.username, 401,
                              "Invalid password", None, None, activeTokens)
                /\ UNCHANGED <<activeTokens, issued>>
           ELSE IF ~signed.ok
           THEN /\ last' = Op("login", None, req.username, 500, "Login failed",
                              None, None, activeTokens)
                /\ UNCHANGED <<activeTokens, issued>>
           ELSE /\ activeTokens' = setActiveToken(activeTokens, user.id,
                                                  signed.token)
                /\ issued' = Append(issued, signed.token)
                /\ last' = [Op("login", None, req.username, 200, "",
                               None, Some(signed.token), activeTokens)
                              EXCEPT !.started = req.started]
  /\ UNCHANGED <<env, db, boot, now, ticks>>

\* POST /login from the resolution of bcrypt.compare to the response
LoginCompareDone(req) ==
  /\ req \in Requests
  /\ req.pc = "compare"
  /\ LET user == req.row[1]
         isMatch == BcryptCompare(req.password, user.password)
         signed == JwtSign(user, env.JWT_SECRET, now)
     IN /\ inflight' = Resume(req)
        /\ IF ~isMatch
           THEN /\ last' = Op("login", None, req.username, 401,
                              "Invalid password", None, None, activeTokens)
                /\ UNCHANGED <<activeTokens, issued>>
           ELSE IF ~signed.ok
           THEN /\ last' = Op("login", None, req.username, 500, "Login failed",
                              None, None, activeTokens)
                /\ UNCHANGED <<activeTokens, issued>>
           ELSE /\ activeTokens' = setActiveToken(activeTokens, user.id,
                                                  signed.token)
                /\ issued' = Append(issued, signed.token)
                /\ last' = [Op("login", None, req.username, 200, "",
                               None, Some(signed.token), activeTokens)
                              EXCEPT !.started = req.started]
  /\ UNCHANGED <<env, db, boot, now, ticks>>

\* variant of Authenticate: a granted token is written back as the entry of
\* its identity
Authenticate_Refresh(hdr) ==
  /\ LET g == verifyToken(hdr, env.JWT_SECRET, now, env.jwtMajor)
         calls == verifyTokenCalls(hdr, env.JWT_SECRET, now, env.jwtMajor)
     IN /\ last' = [Op("auth", hdr, "", IF g.status = 0 THEN 200 ELSE g.status,
                       g.error, g.user, None, activeTokens)
                      EXCEPT !.gate = calls]
        /\ activeTokens' =
             IF g.status = 0
             THEN setActiveToken(activeTokens, g.user[1].id,
                                 ExtractToken(hdr)[1][1].jwt)
             ELSE activeTokens
  /\ UNCHANGED <<env, db, boot, now, ticks, inflight, issued>>

\* a protected route: verifyToken, then the route handler when next() is called
Authenticate(hdr) ==
  /\ LET g == verifyToken(hdr, env.JWT_SECRET, now, env.jwtMajor)
         calls == verifyTokenCalls(hdr, env.JWT_SECRET, now, env.jwtMajor)
     IN last' = [Op("auth", hdr, "", IF g.status = 0 THEN 200 ELSE g.status,
                    g.error, g.user, None, activeTokens)
                   EXCEPT !.gate = calls]
  /\ UNCHANGED <<env, db, boot, now, ticks, activeTokens, inflight, issued>>

\* the bodies a client can send with POST /logout: none, or one naming a user
LogoutBodies == {None} \cup { Some([id |-> id]) : id \in Ids }

\* a handler that lets the request body name the entry to clear
Logout_BodySelects(hdr, body) ==
  /\ LET g == verifyToken(hdr, env.JWT_SECRET, now, env.jwtMajor)
         calls == verifyTokenCalls(hdr, env.JWT_SECRET, now, env.jwtMajor)
     IN IF g.status # 0
        THEN /\ last' = [Op("logout", hdr, "", g.status, g.error, g.user, None,
                            activeTokens)
                           EXCEPT !.body = body, !.gate = calls]
             /\ UNCHANGED activeTokens
        ELSE /\ activeTokens' = clearActiveToken(activeTokens,
                                    IF body = None THEN g.user[1].id
                                                   ELSE body[1].id)
             /\ last' = [Op("logout", hdr, "", 200, "", g.user, None,
                            activeTokens)
                           EXCEPT !.body = body, !.gate = calls]
  /\ UNCHANGED <<env, db, boot, now, ticks, inflight, issued>>

\* POST /logout: verifyToken, then clearActiveToken(req.user.id); the handler
\* reads nothing of the request but req.user
Logout(hdr, body) ==
  /\ LET g == verifyToken(hdr, env.JWT_SECRET, now, env.jwtMajor)
         calls == verifyTokenCalls(hdr, env.JWT_SECRET, now, env.jwtMajor)
     IN IF g.status # 0
        THEN /\ last' = [Op("logout", hdr, "", g.status, g.error, g.user, None,
                            activeTokens)
                           EXCEPT !.body = body, !.gate = calls]
             /\ UNCHANGED activeTokens
        ELSE /\ activeTokens' = clearActiveToken(activeTokens, g.user[1].id)
             /\ last' = [Op("logout", hdr, "", 200, "", g.user, None,
                            activeTokens)
                           EXCEPT !.body = body, !.gate = calls]
  /\ UNCHANGED <<env, db, boot, now, ticks, inflight, issued>>

\* the process exits and is started again with the same environment: the
\* module is evaluated anew, the registry is a new Map, the requests that
\* were suspended are gone, the tokens handed out stay with their holders
Restart ==
  /\ activeTokens' = EmptyMap
  /\ inflight' = EmptyBag
  /\ boot' = Len(issued)
  /\ last' = Op("start", None, "", 0, "", None, None, activeTokens)
  /\ UNCHANGED <<env, db, now, ticks, issued>>

Next ==
  \/ \E d \in TickSteps : Tick(d)
  \/ \E u \in LoginUsernames, p \in LoginPasswords : LoginStart(u, p)
  \/ \E req \in Requests, dbok \in BOOLEAN : LoginLookupDone(req, dbok)
  \/ \E req \in Requests : LoginCompareDone(req)
  \/ \E hdr \in ClientHeaders : Authenticate(hdr)
  \/ \E hdr \in ClientHeaders : Logout(hdr, None)

Spec == Init /\ [][Next]_vars

\* ------------------------------------------------------------------------
\* The server over several lifetimes of the process
\* ------------------------------------------------------------------------
NextRestart == Next \/ Restart

SpecRestart == Init /\ [][NextRestart]_vars

\* ------------------------------------------------------------------------
\* The gate as a function of one request: the process is observed after at
\* most one login (and possibly its logout) and some passage of time, and a
\* request with any of the header shapes arrives
\* ------------------------------------------------------------------------
GateTokens ==
  Range(issued) \cup UNION { Altered(tok) : tok \in Range(issued) }
    \cup UNION { Resigned(tok, env.JWT_SECRET) : tok \in Range(issued) }
    \cup AttackerTokens(now)

InitGate ==
  /\ env \in Environments
  /\ \E id \in Ids, iat \in {0, 1} :
       LET signed == JwtSign(UserClaims(id), env.JWT_SECRET, iat)
       IN /\ now \in {iat, iat + TTL - 1, iat + TTL}
          /\ \/ /\ issued = <<>>
                /\ activeTokens = EmptyMap
             \/ /\ signed.ok
                /\ issued = <<signed.token>>
                /\ activeTokens \in {setActiveToken(EmptyMap, id, signed.token),
                                     EmptyMap}
  /\ ticks = 0
  /\ inflight = EmptyBag
  /\ boot = 0
  /\ db = tbl_users
  /\ last = Op("start", None, "", 0, "", None, None, activeTokens)

NextGate ==
  \E tok \in GateTokens : \E hdr \in HeaderShapes(tok) : Authenticate(hdr)

SpecGate == InitGate /\ [][NextGate]_vars

\* ------------------------------------------------------------------------
\* POST /logout as a function of one request: the process is observed after
\* some of the users have logged in, one per second, and some of them have
\* logged out again; logout requests arrive with any token and any body
\* ------------------------------------------------------------------------
LoginOrders == {<<>>, <<1>>, <<2>>, <<1, 2>>, <<2, 1>>}

InitLogout ==
  /\ env \in Environments
  /\ \E order \in LoginOrders :
       LET signed(i) == JwtSign(UserClaims(order[i]), env.JWT_SECRET, i - 1)
           all == [i \in DOMAIN order |-> signed(i).token]
       IN /\ \A i \in DOMAIN order : signed(i).ok
          /\ issued = all
          /\ now \in {Len(order), TTL}
          /\ \E S \in SUBSET DOMAIN order :
               activeTokens = [id \in { order[i] : i \in S } |->
                                 all[CHOOSE i \in S : order[i] = id]]
  /\ ticks = 0
  /\ inflight = EmptyBag
  /\ boot = 0
  /\ db = tbl_users
  /\ last = Op("start", None, "", 0, "", None, None, activeTokens)

NextLogout ==
  \E tok \in GateTokens :
    \E hdr \in {None, BearerHeader(tok)}, body \in LogoutBodies :
      Logout(hdr, body)

SpecLogout == InitLogout /\ [][NextLogout]_vars

\* ------------------------------------------------------------------------
\* The field check of POST /login: a login request arrives whose username
\* and password are each a string, the empty string, null or absent
\* ------------------------------------------------------------------------
FieldUsernames == {"alice", "nobody", "", Null, Undefined}
FieldPasswords == {"pwA", "pwB", "", Null, Undefined}

NextFields ==
  \E u \in FieldUsernames, p \in FieldPasswords : LoginStart(u, p)

SpecFields == InitGate /\ [][NextFields]_vars

\* ------------------------------------------------------------------------
\* The account routes as each entry point of the repository registers them:
\* the method and path, the line of the registration, and whether verifyToken
\* stands before the handler
\* ------------------------------------------------------------------------
Route(src, line, method, path, gated) ==
  [src |-> src, line |-> line, method |-> method, path |-> path,
   gated |-> gated]

\* the router that index.js mounts with app.use("/users", usersRouter)
UsersRouterRoutes ==
  { Route("api/users.js", 48, "GET", "/users", TRUE),
    Route("api/users.js", 102, "GET", "/users/:id", TRUE),
    Route("api/users.js", 140, "POST", "/users", FALSE),
    Route("api/users.js", 203, "PUT", "/users/:id", TRUE),
    Route("api/users.js", 279, "DELETE", "/users/:id", TRUE) }

\* the variant of index.js that registers the routes itself
IndexRoutes ==
  { Route("index.js", 451, "GET", "/users", TRUE),
    Route("index.js", 534, "GET", "/users/:id", TRUE),
    Route("index.js", 601, "POST", "/users", FALSE),
    Route("index.js", 709, "PUT", "/users/:id", TRUE),
    Route("index.js", 812, "DELETE", "/users/:id", TRUE) }

\* server.js, both variants: no route names verifyToken
ServerRoutes ==
  { Route("server.js", 104, "GET", "/users", FALSE),
    Route("server.js", 121, "GET", "/users/:id", FALSE),
    Route("server.js", 146, "POST", "/users", FALSE),
    Route("server.js", 199, "PUT", "/users/:id", FALSE),
    Route("server.js", 272, "DELETE", "/users/:id", FALSE),
    Route("server.js", 405, "GET", "/users", FALSE),
    Route("server.js", 419, "GET", "/users/:id", FALSE),
    Route("server.js", 441, "POST", "/users", FALSE),
    Route("server.js", 490, "PUT", "/users/:id", FALSE),
    Route("server.js", 565, "DELETE", "/users/:id", FALSE) }

\* the stand-alone server of part_000: no route names verifyToken
Part000Routes ==
  { Route("unnamed/part_000", 55, "GET", "/users", FALSE),
    Route("unnamed/part_000", 69, "GET", "/users/:id", FALSE),
    Route("unnamed/part_000", 80, "POST", "/users", FALSE),
    Route("unnamed/part_000", 120, "PUT", "/users/:id", FALSE),
    Route("unnamed/part_000", 154, "DELETE", "/users/:id", FALSE) }

Routes == UsersRouterRoutes \cup IndexRoutes \cup ServerRoutes \cup Part000Routes

\* a request to an account route: express runs the registered middleware in
\* order, so the handler runs after verifyToken called next(), or at once
\* where the route names no middleware; status 200 stands for "the handler
\* ran", whatever it then answered
RouteRequest(route, hdr) ==
  /\ LET g == verifyToken(hdr, env.JWT_SECRET, now, env.jwtMajor)
         calls == verifyTokenCalls(hdr, env.JWT_SECRET, now, env.jwtMajor)
     IN IF route.gated
        THEN last' = [Op("route", hdr, "", IF g.status = 0 THEN 200 ELSE g.status,
                         g.error, g.user, None, activeTokens)
                        EXCEPT !.route = Some(route), !.gate = calls]
        ELSE last' = [Op("route", hdr, "", 200, "", None, None, activeTokens)
                        EXCEPT !.route = Some(route)]
  /\ UNCHANGED <<env, db, boot, now, ticks, activeTokens, inflight, issued>>

NextRoutes ==
  \E route \in Routes :
    \E hdr \in {None} \cup { BearerHeader(tok) : tok \in GateTokens } :
      RouteRequest(route, hdr)

SpecRoutes == InitGate /\ [][NextRoutes]_vars

\* ------------------------------------------------------------------------
\* The account handlers: PUT /users/:id, DELETE /users/:id, POST /users
\* ------------------------------------------------------------------------
Columns ==
  {"id", "username", "firstname", "fullname", "lastname", "password",
   "address", "status", "updated_at"}

\* the body fields a handler destructures; address only in routes/users.js
BodyKeys ==
  {"firstname", "fullname", "lastname", "username", "password", "address",
   "status"}

UpdatableColumns(src) ==
  IF src = "api/users.js" THEN BodyKeys ELSE BodyKeys \ {"address"}

\* request bodies: each field absent or a string, two of them also null
PutBodies ==
  { b \in [BodyKeys -> {Undefined, Null, "x"}] :
      \A k \in BodyKeys : b[k] = Null => k \in {"fullname", "password"} }

\* the ids a request can name in the path: those of the rows and one more
PathIds == {1, 2, 3}

\* the salt bcrypt.hash draws for a new hash
NewSalt == "s3"

\* the handlers with one UPDATE statement (the older variant in server.js
\* at line 490 sets updated_at by a second statement)
PutRoutes == { r \in Routes : r.method = "PUT" /\ r.line # 490 }
DeleteRoutes == { r \in Routes : r.method = "DELETE" }
PostRoutes == { r \in Routes : r.method = "POST" /\ r.line # 441 }

Passes(route, g) == ~route.gated \/ g.status = 0

Answer(op, route, hdr, id, body, status, error, g) ==
  [Op(op, hdr, "", status, error, IF route.gated THEN g.user ELSE None, None,
      activeTokens)
     EXCEPT !.route = Some(route), !.params = id, !.body = body,
            !.gate = IF route.gated
                     THEN verifyTokenCalls(hdr, env.JWT_SECRET, now, env.jwtMajor)
                     ELSE <<>>]

\* variant of PutUser: every updatable column is written, absent fields as NULL
PutUser_WritesAbsent(route, hdr, id, body, dbok) ==
  /\ route \in PutRoutes
  /\ LET g == verifyToken(hdr, env.JWT_SECRET, now, env.jwtMajor)
         cols == { c \in UpdatableColumns(route.src) : body[c] # Undefined }
         old == { r \in db : r.id = id }
         new(r) == [c \in Columns |->
                      IF c = "updated_at" THEN now
                      ELSE IF c = "password" /\ c \in cols
                      THEN BcryptHash(NewSalt, body[c])
                      ELSE IF c \in cols THEN body[c]
                      ELSE IF c \in UpdatableColumns(route.src) \ {"password"}
                      THEN Null
                      ELSE r[c]]
         answer(status, error) ==
           Answer("put", route, hdr, Some(id), Some(body), status, error, g)
     IN IF ~Passes(route, g)
        THEN last' = answer(g.status, g.error) /\ UNCHANGED db
        ELSE IF "password" \in cols /\ body["password"] = Null
        THEN last' = answer(500, "data and salt arguments required")
             /\ UNCHANGED db
        ELSE IF cols = {}
        THEN last' = answer(400, "No fields to update") /\ UNCHANGED db
        ELSE IF ~dbok
        THEN last' = answer(500, "Database error") /\ UNCHANGED db
        ELSE IF old = {}
        THEN last' = answer(404, "User not found") /\ UNCHANGED db
        ELSE /\ db' = (db \ old) \cup { new(r) : r \in old }
             /\ last' = answer(200, "User updated successfully")
  /\ UNCHANGED <<env, now, ticks, activeTokens, inflight, issued, boot>>

\* PUT /users/:id: the gate where the route names it, then one
\* UPDATE tbl_users SET <present fields>, updated_at = CURRENT_TIMESTAMP WHERE id = ?
PutUser(route, hdr, id, body, dbok) ==
  /\ route \in PutRoutes
  /\ LET g == verifyToken(hdr, env.JWT_SECRET, now, env.jwtMajor)
         cols == { c \in UpdatableColumns(route.src) : body[c] # Undefined }
         old == { r \in db : r.id = id }
         new(r) == [c \in Columns |->
                      IF c = "updated_at" THEN now
                      ELSE IF c = "password" /\ c \in cols
                      THEN BcryptHash(NewSalt, body[c])
                      ELSE IF c \in cols THEN body[c]
                      ELSE r[c]]
         answer(status, error) ==
           Answer("put", route, hdr, Some(id), Some(body), status, error, g)
     IN IF ~Passes(route, g)
        THEN last' = answer(g.status, g.error) /\ UNCHANGED db
        ELSE IF "password" \in cols /\ body["password"] = Null
        THEN last' = answer(500, "data and salt arguments required")
             /\ UNCHANGED db
        ELSE IF cols = {}
        THEN last' = answer(400, "No fields to update") /\ UNCHANGED db
        ELSE IF ~dbok
        THEN last' = answer(500, "Database error") /\ UNCHANGED db
        ELSE IF old = {}
        THEN last' = answer(404, "User not found") /\ UNCHANGED db
        ELSE /\ db' = (db \ old) \cup { new(r) : r \in old }
             /\ last' = answer(200, "User updated successfully")
  /\ UNCHANGED <<env, now, ticks, activeTokens, inflight, issued, boot>>

\* variant of DeleteUser: the deleted user's session is cleared as well
DeleteUser_ClearsSession(route, hdr, id, dbok) ==
  /\ route \in DeleteRoutes
  /\ LET g == verifyToken(hdr, env.JWT_SECRET, now, env.jwtMajor)
         old == { r \in db : r.id = id }
         answer(status, error) ==
           Answer("delete", route, hdr, Some(id), None, status, error, g)
     IN IF ~Passes(route, g)
        THEN last' = answer(g.status, g.error) /\ UNCHANGED <<db, activeTokens>>
        ELSE IF ~dbok
        THEN last' = answer(500, "Database error") /\ UNCHANGED <<db, activeTokens>>
        ELSE IF old = {}
        THEN last' = answer(404, "User not found") /\ UNCHANGED <<db, activeTokens>>
        ELSE /\ db' = db \ old
             /\ activeTokens' = clearActiveToken(activeTokens, id)
             /\ last' = answer(200, "User deleted successfully")
  /\ UNCHANGED <<env, now, ticks, inflight, issued, boot>>

\* DELETE /users/:id: the gate where the route names it, then
\* DELETE FROM tbl_users WHERE id = ?
DeleteUser(route, hdr, id, dbok) ==
  /\ route \in DeleteRoutes
  /\ LET g == verifyToken(hdr, env.JWT_SECRET, now, env.jwtMajor)
         old == { r \in db : r.id = id }
         answer(status, error) ==
           Answer("delete", route, hdr, Some(id), None, status, error, g)
     IN IF ~Passes(route, g)
        THEN last' = answer(g.status, g.error) /\ UNCHANGED db
        ELSE IF ~dbok
        THEN last' = answer(500, "Database error") /\ UNCHANGED db
        ELSE IF old = {}
        THEN last' = answer(404, "User not found") /\ UNCHANGED db
        ELSE /\ db' = db \ old
             /\ last' = answer(200, "User deleted successfully")
  /\ UNCHANGED <<env, now, ticks, activeTokens, inflight, issued, boot>>

\* the fields POST /users requires; address only in routes/users.js
RequiredKeys(src) ==
  IF src = "api/users.js"
  THEN <<"firstname", "fullname", "lastname", "username", "password", "address">>
  ELSE <<"firstname", "fullname", "lastname", "username", "password">>

\* POST /users: no gate; requireFields, bcrypt.hash, then one INSERT whose id
\* is the next AUTO_INCREMENT value
CreateUser(route, body, dbok) ==
  /\ route \in PostRoutes
  /\ LET missing == requireFields(body, RequiredKeys(route.src))
         insertId == 1 + Cardinality(tbl_users)
         row == [c \in Columns |->
                   IF c = "id" THEN insertId
                   ELSE IF c = "updated_at" THEN now
                   ELSE IF c = "password" THEN BcryptHash(NewSalt, body[c])
                   ELSE IF c = "status"
                   THEN (IF body[c] = Undefined THEN "active" ELSE body[c])
                   ELSE IF c = "address" /\ route.src # "api/users.js" THEN Null
                   ELSE body[c]]
         answer(status, error) ==
           Answer("post", route, None, None, Some(body), status, error,
                  [user |-> None])
     IN IF missing # None
        THEN last' = answer(400, IF route.src = "unnamed/part_000"
                                 THEN "Missing required fields"
                                 ELSE "Missing required field: " \o missing[1])
             /\ UNCHANGED db
        ELSE IF ~dbok
        THEN last' = answer(500, "Database error") /\ UNCHANGED db
        ELSE /\ db' = db \cup {row}
             /\ last' = answer(201, "")
  /\ UNCHANGED <<env, now, ticks, activeTokens, inflight, issued, boot>>

\* the account handlers as functions of one request: the process is observed
\* after some logins and logouts, with tbl_users as it was at the start, and
\* one account request arrives
NextUsers ==
  /\ last.op = "start"
  /\ \/ \E route \in PutRoutes, hdr \in ClientHeaders, id \in PathIds,
           body \in PutBodies, dbok \in BOOLEAN :
           PutUser(route, hdr, id, body, dbok)
     \/ \E route \in DeleteRoutes, hdr \in ClientHeaders, id \in PathIds,
           dbok \in BOOLEAN :
           DeleteUser(route, hdr, id, dbok)
     \/ \E route \in PostRoutes, body \in PutBodies, dbok \in BOOLEAN :
           CreateUser(route, body, dbok)

SpecUsers == InitLogout /\ [][NextUsers]_vars

\* ------------------------------------------------------------------------
\* GET /users: the list handler and its paging
\* ------------------------------------------------------------------------
\* parseInt(process.env.MAX_PAGE_SIZE || "100", 10) with the variable unset
MAX_PAGE_SIZE == 100

Digits == <<"0", "1", "2", "3", "4", "5", "6", "7", "8", "9">>
IsDigit(c) == \E i \in DOMAIN Digits : Digits[i] = c
DigitValue(c) == (CHOOSE i \in DOMAIN Digits : Digits[i] = c) - 1

RECURSIVE SkipSpace(_)
SkipSpace(s) == IF s # <<>> /\ s[1] = " " THEN SkipSpace(Tail(s)) ELSE s

RECURSIVE DigitPrefix(_)
DigitPrefix(s) ==
  IF s # <<>> /\ IsDigit(s[1]) THEN <<s[1]>> \o DigitPrefix(Tail(s)) ELSE <<>>

RECURSIVE DecimalValue(_)
DecimalValue(ds) ==
  IF ds = <<>> THEN 0
  ELSE 10 * DecimalValue(SubSeq(ds, 1, Len(ds) - 1)) + DigitValue(ds[Len(ds)])

\* parseInt(text, 10) of a text given as its characters: leading blanks are
\* skipped, one sign is read, then the longest run of digits; None is NaN
ParseInt(text) ==
  LET t == SkipSpace(text)
      signed == t # <<>> /\ t[1] \in {"-", "+"}
      ds == DigitPrefix(IF signed THEN Tail(t) ELSE t)
  IN IF ds = <<>> THEN None
     ELSE Some(IF signed /\ t[1] = "-" THEN 0 - DecimalValue(ds)
               ELSE DecimalValue(ds))

Min(a, b) == IF a <= b THEN a ELSE b
Max(a, b) == IF a >= b THEN a ELSE b

\* the texts a query parameter can have; a parameter can also be absent
QueryTexts ==
  { <<>>, <<"0">>, <<"1">>, <<"2">>, <<"1", "0", "0">>, <<"1", "5", "0">>,
    <<"-", "3">>, <<"a">>, <<"7", "x">>, <<" ", "2">>, <<"+", "4">>,
    <<"1", ".", "9">> }

QueryValues == {None} \cup { Some(t) : t \in QueryTexts }

ListRoutes == { r \in UsersRouterRoutes \cup IndexRoutes :
                  r.method = "GET" /\ r.path = "/users" }

\* what the handler computes from req.query: limit (None is null), page, offset
Paging(limitQ, pageQ) ==
  LET limitParam == ParseInt(IF limitQ = None THEN <<>> ELSE limitQ[1])
      limit == IF limitParam = None \/ limitParam[1] <= 0 THEN None
               ELSE Some(Min(limitParam[1], MAX_PAGE_SIZE))
      pageParam == ParseInt(IF pageQ = None THEN <<>> ELSE pageQ[1])
      page == IF pageParam = None \/ pageParam[1] <= 0 THEN 1 ELSE pageParam[1]
      offset == IF limit # None THEN (page - 1) * limit[1] ELSE 0
  IN [limit |-> limit, page |-> page, offset |-> offset]

\* variant of Listing: the requested limit is used as it is
Listing_NoClamp(limitQ, pageQ, n) ==
  LET limitParam == ParseInt(IF limitQ = None THEN <<>> ELSE limitQ[1])
      pg == [Paging(limitQ, pageQ) EXCEPT
               !.limit = IF limitParam = None \/ limitParam[1] <= 0 THEN None
                         ELSE limitParam]
      paged == pg.limit # None /\ pg.limit[1] # 0
  IN [sql |-> IF paged THEN Some([limit |-> pg.limit[1], offset |-> (pg.page - 1) * pg.limit[1]])
              ELSE None,
      count |-> IF paged THEN Min(pg.limit[1], Max(0, n - (pg.page - 1) * pg.limit[1])) ELSE n,
      total |-> IF paged THEN Some(n) ELSE None,
      page |-> IF paged THEN Some(pg.page) ELSE None,
      limit |-> IF paged THEN pg.limit ELSE None]

\* the statement the handler runs on a table of n rows (sql: the LIMIT and
\* OFFSET parameters, None when the clause is not appended) and the fields
\* of the response
Listing(limitQ, pageQ, n) ==
  LET pg == Paging(limitQ, pageQ)
      paged == pg.limit # None /\ pg.limit[1] # 0
  IN [sql |-> IF paged THEN Some([limit |-> pg.limit[1], offset |-> pg.offset])
              ELSE None,
      count |-> IF paged THEN Min(pg.limit[1], Max(0, n - pg.offset)) ELSE n,
      total |-> IF paged THEN Some(n) ELSE None,
      page |-> IF paged THEN Some(pg.page) ELSE None,
      limit |-> IF paged THEN pg.limit ELSE None]

\* GET /users: verifyToken, then the SELECT with or without LIMIT ? OFFSET ?
ListUsers(route, hdr, limitQ, pageQ, dbok) ==
  /\ route \in ListRoutes
  /\ LET g == verifyToken(hdr, env.JWT_SECRET, now, env.jwtMajor)
         answer(status, error, paging) ==
           [Answer("list", route, hdr, None, None, status, error, g)
              EXCEPT !.query = Some([limit |-> limitQ, page |-> pageQ]),
                     !.paging = paging]
     IN IF ~Passes(route, g)
        THEN last' = answer(g.status, g.error, None)
        ELSE IF ~dbok
        THEN last' = answer(500, "Database error", None)
        ELSE last' = answer(200, "",
                            Some(Listing(limitQ, pageQ, Cardinality(db))))
  /\ UNCHANGED <<env, db, now, ticks, activeTokens, inflight, issued, boot>>

\* the list handler as a function of one request
NextList ==
  /\ last.op = "start"
  /\ \E route \in ListRoutes, hdr \in ClientHeaders,
        limitQ \in QueryValues, pageQ \in QueryValues, dbok \in BOOLEAN :
        ListUsers(route, hdr, limitQ, pageQ, dbok)

SpecList == InitGate /\ [][NextList]_vars

\* ------------------------------------------------------------------------
\* Vocabulary of the properties
\* ------------------------------------------------------------------------
GateOps == {"auth", "logout"}

\* the token text a request presents, when the header carries one token
Presented(hdr) ==
  LET tk == ExtractToken(hdr)
  IN IF tk # None /\ Len(tk[1]) = 1 /\ tk[1][1].c = "jwt"
     THEN Some(tk[1][1].jwt) ELSE None

Granted == last.op \in GateOps /\ last.status = 200

\* the registry entry of an identity in a registry value, read directly
Entry(reg, id) == IF id \in DOMAIN reg THEN Some(reg[id]) ELSE None

\* the gate's decision for a request presenting T in the current state
WouldGrantHeader(hdr) ==
  verifyToken(hdr, env.JWT_SECRET, now, env.jwtMajor).status = 0

WouldGrant(T) ==
  verifyToken(BearerHeader(T), env.JWT_SECRET, now, env.jwtMajor).status = 0

\* ------------------------------------------------------------------------
\* C1: the gate grants a request presenting token T for identity U only if
\* the registry entry for U, at the time of the decision, is exactly T.
\* ------------------------------------------------------------------------
C1_GrantedOnlyIfRegistered ==
  \A T \in Range(issued) :
    (Granted /\ Presented(last.hdr) = Some(T))
      => Entry(last.before, T.payload.id) = Some(T)

\* ------------------------------------------------------------------------
\* C2: after two successive logins for U returning A then B, a request
\* presenting A is denied and a request presenting B is granted as U.
\* ------------------------------------------------------------------------
Superseded(A) ==
  \E i, j \in DOMAIN issued :
    /\ i < j
    /\ issued[i] = A
    /\ issued[j] # A
    /\ issued[j].payload.id = A.payload.id

C2_SupersededTokenDenied ==
  \A A \in Range(issued) :
    (last.op = "auth" /\ Presented(last.hdr) = Some(A) /\ Superseded(A))
      => last.status # 200

\* ------------------------------------------------------------------------
\* C3: once logout has been performed for U, every later request presenting
\* a token issued to U before that logout is denied.  Within one process
\* only a logout removes a registry entry, so a token issued by the running
\* process whose identity has no entry is one whose identity logged out
\* after the token was issued.
\* ------------------------------------------------------------------------
LoggedOut(T) ==
  /\ \E i \in DOMAIN issued : i > boot /\ issued[i] = T
  /\ T.payload.id \notin DOMAIN activeTokens

C3_LoggedOutTokenDenied ==
  \A T \in Range(issued) :
    (last.op = "auth" /\ Presented(last.hdr) = Some(T) /\ LoggedOut(T))
      => last.status # 200

\* ------------------------------------------------------------------------
\* C4: a successful login for U immediately followed by a request presenting
\* the returned token is granted, and the granted identity is U.
\* ------------------------------------------------------------------------
C4_LoginThenAuthenticateGranted ==
  [][ ( /\ last.op = "login" /\ last.status = 200
        /\ last'.op \in GateOps
        /\ last'.hdr = BearerHeader(last.token[1]) )
      => ( /\ last'.status = 200
           /\ last'.user # None
           /\ \E r \in tbl_users :
                r.username = last.username /\ last'.user[1].id = r.id ) ]_vars

C4_Witness ==
  /\ last.op = "auth" /\ last.status = 200
  /\ issued # <<>>
  /\ last.hdr = BearerHeader(issued[Len(issued)])
  /\ last.user[1].id = issued[Len(issued)].payload.id
  /\ Entry(activeTokens, last.user[1].id) = Some(issued[Len(issued)])

\* ------------------------------------------------------------------------
\* C5: for every identity at most one issued token is accepted by the gate
\* at any time.
\* ------------------------------------------------------------------------
C5_AtMostOneAcceptedToken ==
  \A id \in Ids :
    Cardinality({ T \in Range(issued) : T.payload.id = id /\ WouldGrant(T) }) <= 1

\* ------------------------------------------------------------------------
\* C6: a request with no token gets the "no credential" outcome (401); a
\* request presenting a malformed, mis-signed or expired token gets the
\* "invalid or expired" outcome (403); neither case gets the other's outcome.
\* ------------------------------------------------------------------------
MisSigned(T) ==
  \/ T.sig # NoSig /\ T.sig # Mac(env.JWT_SECRET, T.alg, T.payload)
  \/ T.sig = NoSig /\ env.JWT_SECRET # ""

BadToken(T) == MisSigned(T) \/ now >= T.payload.exp

NoCredential ==
  last.status = 401 /\ last.error = "No token provided, authorization denied"

InvalidCredential ==
  last.status = 403 /\ last.error = "Invalid or expired token"

BearerShaped(hdr) ==
  /\ hdr # None
  /\ Len(hdr[1]) = 3
  /\ hdr[1][1] = Word("Bearer")
  /\ hdr[1][2] = SP
  /\ hdr[1][3] # SP

C7_MalformedHeaderIsNoCredential ==
  (env.JWT_SECRET # "" /\ last.op \in GateOps /\ ~BearerShaped(last.hdr))
    => NoCredential

\* ------------------------------------------------------------------------
\* C8: an issued token expires one hour after it was issued; presented
\* after its expiry it is denied even while it is the registry's entry for
\* its identity, and expiry leaves the registry as it was.
\* ------------------------------------------------------------------------
C8_ExpiredTokenDenied ==
  /\ \A T \in Range(issued) : T.payload.exp = T.payload.iat + 60 * 60
  /\ (last.op = "login" /\ last.status = 200)
        => last.token[1].payload.iat = now
  /\ \A T \in Range(issued) :
       (last.op \in GateOps /\ Presented(last.hdr) = Some(T)
          /\ now > T.payload.exp)
         => (last.status = 403 /\ activeTokens = last.before)
  /\ last.op = "tick" => activeTokens = last.before

C8_Witness ==
  /\ last.op = "auth"
  /\ last.status = 403
  /\ \E T \in Range(issued) :
       /\ last.hdr = BearerHeader(T)
       /\ now > T.payload.exp
       /\ Entry(activeTokens, T.payload.id) = Some(T)

\* ------------------------------------------------------------------------
\* C9: with a secret configured, a presented token whose signature is not
\* the server's signature over its content is denied, whatever the registry
\* holds for its identity.
\* ------------------------------------------------------------------------
C9_MisSignedTokenDenied ==
  \A T \in GateTokens :
    ( /\ last.op \in GateOps
      /\ Presented(last.hdr) = Some(T)
      /\ env.JWT_SECRET # ""
      /\ T.sig # Mac(env.JWT_SECRET, T.alg, T.payload) )
    => last.status = 403

C9_Witness ==
  /\ last.op = "auth"
  /\ last.status = 403
  /\ \E T0 \in Range(issued) :
       /\ Entry(activeTokens, T0.payload.id) = Some(T0)
       /\ now < T0.payload.exp
       /\ last.hdr = BearerHeader([T0 EXCEPT !.sig.key = "attacker"])

\* ------------------------------------------------------------------------
\* C10: a logout that passes the gate returns success and leaves the
\* identity without a registry entry and every other entry as it was; a
\* second logout presenting the same header right after a successful one
\* also returns success and leaves the registry exactly as it was.
\* ------------------------------------------------------------------------
C10_LogoutIdempotent ==
  [][ /\ (last'.op = "logout" /\ last'.user # None)
        => /\ last'.status = 200
           /\ DOMAIN activeTokens' = DOMAIN activeTokens \ {last'.user[1].id}
           /\ \A x \in DOMAIN activeTokens' : activeTokens'[x] = activeTokens[x]
      /\ ( /\ last.op = "logout" /\ last.status = 200
           /\ last'.op = "logout" /\ last'.hdr = last.hdr )
        => (last'.status = 200 /\ activeTokens' = activeTokens) ]_vars

C10_Witness ==
  /\ last.op = "logout"
  /\ last.status = 200
  /\ last.user[1].id \notin DOMAIN last.before
  /\ last.before = activeTokens
  /\ \E T \in Range(issued) : last.hdr = BearerHeader(T)

\* ------------------------------------------------------------------------
\* C11: a logout clears only the registry entry of the identity that the
\* gate attached to the request, which is the identity of the presented
\* token; the entry of every other identity is as it was before; a user
\* named in the request body does not select the entry that is cleared.
\* ------------------------------------------------------------------------
C11_LogoutClearsOnlyGrantedIdentity ==
  (last.op = "logout" /\ last.status = 200) =>
    \E T \in GateTokens :
      /\ Presented(last.hdr) = Some(T)
      /\ last.user = Some(T.payload)
      /\ T.payload.id \notin DOMAIN activeTokens
      /\ \A V \in Ids \ {T.payload.id} :
           Entry(activeTokens, V) = Entry(last.before, V)

C11_Witness ==
  /\ last.op = "logout"
  /\ last.status = 200
  /\ last.body # None
  /\ last.body[1].id # last.user[1].id
  /\ last.user[1].id \in DOMAIN last.before
  /\ last.body[1].id \in DOMAIN activeTokens
  /\ Entry(activeTokens, last.body[1].id) = Entry(last.before, last.body[1].id)

\* ------------------------------------------------------------------------
\* C12: a login naming an unknown user and a login giving a wrong password
\* for a known user get the same response, status and error body alike.
\* ------------------------------------------------------------------------
Known(username) == SelectByUsername(username) # {}

\* a login that was refused for its credentials, whichever was wrong
CredentialsRefused(l) == l.op = "login" /\ l.status = 401

C12_LoginFailuresIndistinguishable ==
  [][ ( /\ CredentialsRefused(last) /\ ~Known(last.username)
        /\ CredentialsRefused(last') /\ Known(last'.username) )
      => (last'.status = last.status /\ last'.error = last.error) ]_vars

\* ------------------------------------------------------------------------
\* C13: a process whose signing secret is absent or empty serves no login
\* and no protected route: no login request is taken up and no request
\* reaches the gate.
\* ------------------------------------------------------------------------
C13_NoSecretNothingServed ==
  env.JWT_SECRET = "" =>
    /\ inflight = EmptyBag
    /\ last.op \notin {"login", "auth", "logout"}

\* ------------------------------------------------------------------------
\* C14: the registry is empty when the process starts; after a restart a
\* token issued before it is denied by the gate, expired or not, until a
\* new login for its identity has completed.
\* ------------------------------------------------------------------------
IssuedBeforeRestart(T) == \E i \in DOMAIN issued : i <= boot /\ issued[i] = T

LoggedInSinceRestart(id) ==
  \E j \in DOMAIN issued : j > boot /\ issued[j].payload.id = id

C14_RestartDeniesEarlierTokens ==
  /\ last.op = "start" => activeTokens = EmptyMap
  /\ \A T \in Range(issued) :
       ( /\ last.op = "auth"
         /\ Presented(last.hdr) = Some(T)
         /\ IssuedBeforeRestart(T)
         /\ ~LoggedInSinceRestart(T.payload.id) )
       => last.status # 200

\* ------------------------------------------------------------------------
\* C15: the handler of an account read, update or delete route (GET /users,
\* GET /users/:id, PUT /users/:id, DELETE /users/:id) runs only for a
\* request that the gate granted; the handler of the registration route
\* POST /users runs without a token.
\* ------------------------------------------------------------------------
ProtectedRoute(route) == <<route.method, route.path>> # <<"POST", "/users">>

HandlerRan == last.op = "route" /\ last.status = 200

C15_AccountHandlersBehindGate ==
  last.op = "route" =>
    /\ (ProtectedRoute(last.route[1]) /\ HandlerRan)
         => (last.user # None /\ WouldGrantHeader(last.hdr))
    /\ ~ProtectedRoute(last.route[1]) => HandlerRan

\* ------------------------------------------------------------------------
\* C16: when the gate grants a request, the identity and claims attached to
\* the request are exactly those embedded in the presented token; a granted
\* token that carries the signature of an issued token carries that token's
\* content, so the request is never granted as another identity than the one
\* the token was issued for; a denied request has no identity attached.
\* ------------------------------------------------------------------------
C16_GrantedIdentityIsTokenIdentity ==
  last.op \in GateOps =>
    /\ last.status = 200 =>
         \E T \in GateTokens :
           /\ Presented(last.hdr) = Some(T)
           /\ last.user = Some(T.payload)
           /\ \A T0 \in Range(issued) :
                (T.sig # NoSig /\ T.sig = T0.sig) => last.user = Some(T0.payload)
    /\ last.status # 200 => last.user = None

C16_Witness ==
  /\ last.op = "auth"
  /\ last.status = 200
  /\ \E T \in Range(issued) :
       /\ Presented(last.hdr) = Some(T)
       /\ last.user = Some(T.payload)
       /\ last.user[1].id = T.payload.id
       /\ now > T.payload.iat

\* ------------------------------------------------------------------------
\* C17: every request that enters the gate reaches exactly one outcome, in
\* one attempt: either the gate calls next() once and sends nothing, and the
\* handler runs, or it sends one error response that carries a reason, and
\* the handler does not run.
\* ------------------------------------------------------------------------
C17_GateExactlyOneOutcome ==
  last.op \in GateOps =>
    /\ Len(last.gate) = 1
    /\ \/ /\ last.gate[1].call = "next"
          /\ last.status = 200
       \/ /\ last.gate[1].call = "res.json"
          /\ last.gate[1].status \in {401, 403}
          /\ last.gate[1].error # ""
          /\ last.status = last.gate[1].status
          /\ last.error = last.gate[1].error

C17_Witness ==
  /\ last.op = "auth"
  /\ last.hdr = None
  /\ last.gate = <<ResCall(401, "No token provided, authorization denied")>>
  /\ last.status = 401
  /\ issued # <<>>

\* ------------------------------------------------------------------------
\* C18: a login request whose username or password is absent, null or the
\* empty string is answered 400 with an error naming the first missing
\* field (username before password), which is not the login-failure
\* response; no lookup is started, no password compared, no token minted
\* and the registry is left as it was.
\* ------------------------------------------------------------------------
Missing(v) == v = Undefined \/ v = Null \/ v = ""

C18_MissingFieldRejected ==
  [][ \A u \in FieldUsernames, p \in FieldPasswords :
        ((Missing(u) \/ Missing(p)) /\ LoginStart(u, p))
        => /\ last'.op = "login"
           /\ last'.status = 400
           /\ last'.error = "Missing required field: "
                               \o (IF Missing(u) THEN "username" ELSE "password")
           /\ last'.error \notin {"User not found", "Invalid password",
                                   "Login failed"}
           /\ last'.token = None
           /\ inflight' = inflight
           /\ issued' = issued
           /\ activeTokens' = activeTokens ]_vars

C18_Witness ==
  /\ last.op = "login"
  /\ last.status = 400
  /\ last.username = "alice"
  /\ last.error = "Missing required field: password"
  /\ activeTokens # EmptyMap
  /\ last.before = activeTokens
  /\ inflight = EmptyBag

\* ------------------------------------------------------------------------
\* C19: when two logins for one identity were in flight at the same time
\* and both have completed, the registry entry of the identity is the token
\* of the login that completed last, the gate grants that token, and the
\* gate denies the token of the other login.  A login ran concurrently with
\* the one that has just completed when its token was issued after that one
\* started.
\* ------------------------------------------------------------------------
C19_ConcurrentLoginsLastWriteWins ==
  (last.op = "login" /\ last.status = 200) =>
    \A i \in DOMAIN issued :
      ( /\ i < Len(issued)
        /\ i > last.started
        /\ issued[i].payload.id = last.token[1].payload.id
        /\ issued[i] # last.token[1] )
      => /\ Entry(activeTokens, last.token[1].payload.id) = last.token
         /\ WouldGrant(last.token[1])
         /\ ~WouldGrant(issued[i])

\* ------------------------------------------------------------------------
\* C20: the gate accepts only tokens signed with the one algorithm the
\* issuer signs with (HS256): a presented token that declares another
\* algorithm is denied, whatever its content and whatever the registry
\* holds (stated for a process with a secret configured).
\* ------------------------------------------------------------------------
IssuerAlgorithm == "HS256"

C20_OtherAlgorithmDenied ==
  \A T \in GateTokens :
    ( /\ env.JWT_SECRET # ""
      /\ last.op \in GateOps
      /\ Presented(last.hdr) = Some(T)
      /\ T.alg # IssuerAlgorithm )
    => last.status # 200

\* ------------------------------------------------------------------------
\* C21: every issued token embeds the identity and display attributes (id,
\* fullname, lastname) and the issued-at and expiry times and nothing else,
\* so neither the password nor its stored hash; a login response carries
\* nothing but such a token or one of the fixed error messages, although
\* the login read the hash from the user record.
\* ------------------------------------------------------------------------
TokenFields == {"id", "fullname", "lastname", "iat", "exp"}

LoginErrors ==
  {"", "Missing required field: username", "Missing required field: password",
   "User not found", "Invalid password", "Login failed"}

C21_TokenHasNoPassword ==
  /\ \A i \in DOMAIN issued :
       /\ DOMAIN issued[i].payload = TokenFields
       /\ DOMAIN issued[i].sig.payload = TokenFields
       /\ \E r \in tbl_users :
            /\ issued[i].payload.id = r.id
            /\ issued[i].payload.fullname = r.fullname
            /\ issued[i].payload.lastname = r.lastname
  /\ last.op = "login" =>
       /\ last.error \in LoginErrors
       /\ last.token # None => DOMAIN last.token[1].payload = TokenFields

C21_Witness ==
  /\ last.op = "login"
  /\ last.status = 200
  /\ \E r \in tbl_users :
       /\ r.username = last.username
       /\ "password" \in DOMAIN r
       /\ last.token[1].payload.id = r.id
  /\ "password" \notin DOMAIN last.token[1].payload

\* ------------------------------------------------------------------------
\* C22: the gate never modifies the registry: after a request to a protected
\* route, granted or denied, and after a logout request that the gate
\* denied, the registry is what it was before the request, whether the
\* request carried no token, an invalid one, a revoked one or a current one.
\* ------------------------------------------------------------------------
C22_GateLeavesRegistry ==
  (last.op = "auth" \/ (last.op = "logout" /\ last.status # 200))
    => activeTokens = last.before

C22_Witness ==
  /\ last.op = "auth"
  /\ last.status = 200
  /\ \E T \in Range(issued) :
       /\ Presented(last.hdr) = Some(T)
       /\ T.payload.id \notin DOMAIN activeTokens
  /\ \E V \in Ids : V \in DOMAIN activeTokens
  /\ activeTokens = last.before

\* ------------------------------------------------------------------------
\* C23: a PUT /users/:id that succeeds changes, on the row with that id,
\* exactly the columns whose fields are present in the body (the password
\* column to a hash of the given password) and updated_at, and leaves every
\* other column and every other row as it was; with no updatable field
\* present it answers 400 and writes nothing; for an id with no row it
\* answers 404 and writes nothing.
\* ------------------------------------------------------------------------
Present(route, body) ==
  { c \in UpdatableColumns(route.src) : body[c] # Undefined }

C23_PutChangesPresentColumns ==
  [][ last'.op = "put" =>
        LET route == last'.route[1]
            id == last'.params[1]
            body == last'.body[1]
            present == Present(route, body)
            old == { r \in db : r.id = id }
            reached == last'.status \notin {401, 403}
        IN /\ last'.status = 200 =>
                /\ old # {} /\ present # {}
                /\ \A r \in db : r.id # id => r \in db'
                /\ Cardinality(db') = Cardinality(db)
                /\ \E n \in db' : \A r \in old : \A c \in Columns :
                     IF c = "updated_at" THEN n[c] = now
                     ELSE IF c = "password" /\ c \in present
                     THEN BcryptCompare(body[c], n[c])
                     ELSE IF c \in present THEN n[c] = body[c]
                     ELSE n[c] = r[c]
           /\ (reached /\ present = {}) => last'.status = 400
           /\ last'.status = 400 => (present = {} /\ db' = db)
           /\ (reached /\ present # {} /\ old = {} /\ last'.status # 500)
                => last'.status = 404
           /\ last'.status = 404 => (old = {} /\ db' = db) ]_vars

C23_Witness ==
  /\ last.op = "put"
  /\ last.status = 200
  /\ last.body[1]["fullname"] = "x"
  /\ last.body[1]["lastname"] = Undefined
  /\ last.body[1]["password"] = "x"
  /\ \E n \in db, r \in tbl_users :
       /\ n.id = last.params[1] /\ r.id = n.id
       /\ n.fullname = "x"
       /\ n.lastname = r.lastname
       /\ n.password # r.password
  /\ \E r \in tbl_users : r.id # last.params[1] /\ r \in db

\* ------------------------------------------------------------------------
\* C24: for GET /users, when the limit parameter parses to a positive
\* integer the page size is min(limit, MAX_PAGE_SIZE) and lies between 1
\* and MAX_PAGE_SIZE, the page is the supplied positive integer or else 1,
\* and the offset is (page - 1) * page size and not negative; when limit is
\* absent, not a number or not positive, no LIMIT/OFFSET is applied and the
\* response has no total, page or limit field.
\* ------------------------------------------------------------------------
Parsed(q) == ParseInt(IF q = None THEN <<>> ELSE q[1])

Positive(x) == x # None /\ x[1] > 0

C24_PagingWithinBounds ==
  (last.op = "list" /\ last.status = 200) =>
    LET limitParam == Parsed(last.query[1].limit)
        pageParam == Parsed(last.query[1].page)
        r == last.paging[1]
        page == IF Positive(pageParam) THEN pageParam[1] ELSE 1
    IN IF Positive(limitParam)
       THEN /\ r.sql # None
            /\ r.sql[1].limit = (IF limitParam[1] <= MAX_PAGE_SIZE
                                  THEN limitParam[1] ELSE MAX_PAGE_SIZE)
            /\ r.sql[1].limit \in 1..MAX_PAGE_SIZE
            /\ r.sql[1].offset = (page - 1) * r.sql[1].limit
            /\ r.sql[1].offset >= 0
            /\ r.limit = Some(r.sql[1].limit)
            /\ r.page = Some(page)
            /\ r.total # None
       ELSE /\ r.sql = None
            /\ r.total = None /\ r.page = None /\ r.limit = None

C24_Witness ==
  /\ last.op = "list"
  /\ last.status = 200
  /\ last.query[1].limit = Some(<<"1", "5", "0">>)
  /\ last.query[1].page = Some(<<"2">>)
  /\ last.paging[1].sql = Some([limit |-> 100, offset |-> 100])
  /\ last.paging[1].limit = Some(100)

\* ------------------------------------------------------------------------
\* C25: a login changes the registry only by writing the entry of the
\* identity whose credentials were verified: a login answered with a missing
\* field, an unknown user, a wrong password or an internal error leaves the
\* registry as it was and returns no token, and so does a login while it is
\* suspended; a successful login for U writes the returned token as U's
\* entry and leaves the entry of every other identity as it was.
\* ------------------------------------------------------------------------
C25_LoginWritesOnlyOwnEntry ==
  /\ last.op = "suspend" => activeTokens = last.before
  /\ last.op = "login" =>
       IF last.status = 200
       THEN /\ last.token # None
            /\ \E r \in tbl_users :
                 /\ r.username = last.username
                 /\ last.token[1].payload.id = r.id
                 /\ Entry(activeTokens, r.id) = last.token
                 /\ \A V \in Ids \ {r.id} :
                      Entry(activeTokens, V) = Entry(last.before, V)
       ELSE /\ last.status \in {400, 401, 500}
            /\ last.token = None
            /\ activeTokens = last.before

C25_Witness ==
  /\ last.op = "login"
  /\ last.status = 200
  /\ \E V \in Ids :
       /\ V # last.token[1].payload.id
       /\ V \in DOMAIN last.before
       /\ Entry(activeTokens, V) = Entry(last.before, V)

\* ------------------------------------------------------------------------
\* C26: every registry entry of an identity U is a token returned by a
\* completed successful login whose supplied password matched U's stored
\* hash: an entry is written only by the step that answers a login 200 with
\* that token, taken by a request whose password compares equal to the hash
\* of U's row, and an identity whose logins have all failed or are still
\* suspended in the lookup or the comparison has no entry.
\* ------------------------------------------------------------------------
SucceededFor(U) == { i \in DOMAIN issued : issued[i].payload.id = U }

C26_EntryStep ==
  /\ \A U \in DOMAIN activeTokens' :
       \E i \in DOMAIN issued' :
         /\ issued'[i] = activeTokens'[U]
         /\ issued'[i].payload.id = U
  /\ \A U \in Ids :
       (U \in DOMAIN activeTokens' /\ Entry(activeTokens', U) # Entry(activeTokens, U))
         => /\ last'.op = "login"
            /\ last'.status = 200
            /\ last'.token = Entry(activeTokens', U)
            /\ issued' = Append(issued, activeTokens'[U])
            /\ \E req \in Requests, r \in db :
                 /\ req.pc = "compare"
                 /\ req.username = last'.username
                 /\ r.username = req.username
                 /\ r.id = U
                 /\ BcryptHash(r.password.salt, req.password) = r.password
                 /\ inflight' = Resume(req)

C26_EntryOnlyFromMatchedLogin == [][C26_EntryStep]_vars

C26_Witness ==
  /\ last.op = "login"
  /\ last.status = 401
  /\ last.error = "Invalid password"
  /\ \E r \in db :
       /\ r.username = last.username
       /\ r.id \notin DOMAIN activeTokens
       /\ SucceededFor(r.id) = {}
  /\ \E U \in DOMAIN activeTokens : SucceededFor(U) # {}

\* ------------------------------------------------------------------------
\* C27: the registry written by login and cleared by logout is the state
\* the registry module's get operation reads: right after a successful login
\* for U returning T, getActiveToken(U) of the module returns T, and right
\* after a logout for U it returns absent.
\* ------------------------------------------------------------------------
C27_ModuleGetReadsLoginState ==
  /\ (last.op = "login" /\ last.status = 200)
       => getActiveToken(moduleActiveTokens, last.token[1].payload.id) = last.token
  /\ (last.op = "logout" /\ last.status = 200)
       => getActiveToken(moduleActiveTokens, last.user.id) = None

\* ------------------------------------------------------------------------
\* C28: a logout that presents a token superseded by a later login for the
\* same identity does not remove the newer login's entry: when the registry
\* holds B for U and a logout presents an issued token A of U other than B,
\* B is still U's entry after the logout.
\* ------------------------------------------------------------------------
SupersededIn(A, reg) ==
  /\ A.payload.id \in DOMAIN reg
  /\ reg[A.payload.id] # A
  /\ \E i, j \in DOMAIN issued :
       i < j /\ issued[i] = A /\ issued[j] = reg[A.payload.id]

C28_SupersededLogoutKeepsNewerEntry ==
  \A A \in Range(issued) :
    (last.op = "logout" /\ Presented(last.hdr) = Some(A)
       /\ SupersededIn(A, last.before))
      => Entry(activeTokens, A.payload.id) = Entry(last.before, A.payload.id)

\* ------------------------------------------------------------------------
\* C29: any two distinct successful logins for the same identity return
\* different token strings, also when both complete within the same clock
\* second with the same display attributes.
\* ------------------------------------------------------------------------
C29_DistinctLoginsDistinctTokens ==
  \A i, j \in DOMAIN issued :
    (i # j /\ issued[i].payload.id = issued[j].payload.id)
      => issued[i] # issued[j]

\* ------------------------------------------------------------------------
\* C30: account create, update and delete leave the session registry as it
\* was: deleting user U or changing U's password neither removes nor
\* replaces U's entry, and the gate's decision for every issued token is the
\* same right after the operation as right before it.
\* ------------------------------------------------------------------------
AccountOps == {"put", "delete", "post"}

\* the gate's decision for a request presenting T under environment e at time t
Decision(T, e, t) ==
  verifyToken(BearerHeader(T), e.JWT_SECRET, t, e.jwtMajor).status = 0

C30_AccountStep ==
  last'.op \in AccountOps =>
    /\ activeTokens' = activeTokens
    /\ \A T \in Range(issued) : Decision(T, env', now') <=> Decision(T, env, now)

C30_AccountOpsLeaveRegistry == [][C30_AccountStep]_vars

C30_Witness ==
  /\ last.op = "delete"
  /\ last.status = 200
  /\ \A r \in db : r.id # last.params[1]
  /\ last.params[1] \in DOMAIN activeTokens
  /\ activeTokens[last.params[1]].payload.id = last.params[1]
  /\ WouldGrant(activeTokens[last.params[1]])

====
